---- MODULE Spec2Model ----
(***************************************************************************)
(* A model of the three serverless functions of powervs-scheduled-scaler:  *)
(*   pvs-scale-fn                (apply-and-report),                       *)
(*   pvs-scale-current-fn        (fetch-and-publish, first version),       *)
(*   pvs-scale-current-state-fn  (fetch-and-publish, hardened version).    *)
(* Three specifications share the module:                                  *)
(*   Spec       two fetch-and-publish invocations against one config map,  *)
(*   SpecApply  one apply invocation,                                      *)
(*   SpecDrain  get_paged_results alone, over scripted pagers.             *)
(***************************************************************************)
EXTENDS Integers, Sequences, FiniteSets, TLC

VARIABLES
  \* ---------------- get_paged_results alone (SpecDrain)
  dFn,        \* which function's drainer runs: "current" or "state"
  dPages,     \* the pager's script: what each get_next call yields
  dState,     \* the drainer's loop state
  \* ---------------- apply-and-report (SpecApply)
  aEnv,       \* the environment variables and the token manager's answer
  aPc,        \* "start", "loop", "done"
  aIdx,       \* index of the next record of config
  output,     \* the outcome list built so far
  putLog,     \* the update requests issued so far, in order
  aResult,    \* what main returned
  \* ---------------- fetch-and-publish (Spec)
  fn,         \* the deployed function: "current" or "state"
  env,        \* the environment variables of the deployed function
  pc,         \* per invocation: the next external call
  projectId,  \* per invocation: project_id
  listing,    \* per invocation: the listing response it received
  data,       \* per invocation: the projected records
  found,      \* per invocation: the config map was in the drained listing
  etag,       \* per invocation: the entity tag get_config_map returned
  calls,      \* per invocation: the Code Engine calls issued, in order
  race,       \* per invocation: what its replace met in the store
  result,     \* per invocation: what main returned
  store       \* the config map "pvs-scale-up-config" in Code Engine

drainVars == <<dFn, dPages, dState>>
applyVars == <<aEnv, aPc, aIdx, output, putLog, aResult>>
fetchVars == <<fn, env, pc, projectId, listing, data, found, etag, calls, race, result, store>>
vars == <<dFn, dPages, dState, aEnv, aPc, aIdx, output, putLog, aResult,
          fn, env, pc, projectId, listing, data, found, etag, calls, race, result, store>>

\* ------------------------------------------------------------------ bounds
MaxPages == 3
MaxPageLen == 2
MaxRecords == 3
MaxEntries == 3
MaxEntriesRace == 1

\* ------------------------------------------------------------- generalities
Fns == {"current", "state"}

SeqsUpTo(S, n) == UNION {[1..k -> S] : k \in 0..n}

RECURSIVE Flatten(_)
Flatten(ss) == IF ss = <<>> THEN <<>> ELSE Head(ss) \o Flatten(Tail(ss))

\* A dict's .get(k): whether the key is there is asked apart from its value.
Has(d, k) == k \in DOMAIN d

\* ------------------------------------------------------- get_paged_results
\* A pager is a script: what each get_next call yields while has_next is true.
\* has_next is true exactly while the script has an event left.
PageEv(items) == [kind |-> "page", items |-> items]   \* a list (maybe empty)
NoneEv == [kind |-> "none", items |-> <<>>]            \* get_next returns None
RaiseEv == [kind |-> "raise", items |-> <<>>]          \* get_next raises

DrainItems == {"a", "b"}
PageEvents == {PageEv(s) : s \in SeqsUpTo(DrainItems, MaxPageLen)} \cup {NoneEv, RaiseEv}
Pagers == SeqsUpTo(PageEvents, MaxPages)

DrainStart == [pos |-> 1, results |-> <<>>, calls |-> 0, status |-> "loop", exc |-> "none"]

\* results.extend(next_page), written out of order
ExtendPrepended(results, page) == page \o results

\* results.extend(next_page)
Extend(results, page) == results \o page

\* One evaluation of `while pager.has_next()` and of the loop body,
\* pvs-scale-current-state-fn: an empty or absent page breaks, and every
\* exception is logged and swallowed.
DrainIterState(pages, st) ==
  IF st.pos > Len(pages)
  THEN [st EXCEPT !.status = "returned"]
  ELSE LET ev == pages[st.pos]
           called == [st EXCEPT !.calls = @ + 1]
       IN IF ev.kind = "raise"
          THEN [called EXCEPT !.status = "returned"]
          ELSE IF ev.kind = "none" \/ ev.items = <<>>
          THEN [called EXCEPT !.status = "returned"]
          ELSE [called EXCEPT !.results = Extend(@, ev.items), !.pos = @ + 1]

\* The same, pvs-scale-current-fn: `assert next_page is not None`, and nothing
\* is caught.
DrainIterCurrent(pages, st) ==
  IF st.pos > Len(pages)
  THEN [st EXCEPT !.status = "returned"]
  ELSE LET ev == pages[st.pos]
           called == [st EXCEPT !.calls = @ + 1]
       IN IF ev.kind = "raise"
          THEN [called EXCEPT !.status = "raised", !.exc = "ApiException"]
          ELSE IF ev.kind = "none"
          THEN [called EXCEPT !.status = "raised", !.exc = "AssertionError"]
          ELSE [called EXCEPT !.results = Extend(@, ev.items), !.pos = @ + 1]

DrainIter(f, pages, st) ==
  IF f = "state" THEN DrainIterState(pages, st) ELSE DrainIterCurrent(pages, st)

RECURSIVE DrainFrom(_, _, _)
DrainFrom(f, pages, st) ==
  IF st.status # "loop" THEN st ELSE DrainFrom(f, pages, DrainIter(f, pages, st))

\* get_paged_results(pager), run to its end
get_paged_results(f, pages) == DrainFrom(f, pages, DrainStart)

\* ---- SpecDrain: the drainer alone, one loop iteration per step
DrainIdle == dFn = "state" /\ dPages = <<>> /\ dState = [DrainStart EXCEPT !.status = "idle"]

InitDrainOnly ==
  /\ dFn \in Fns
  /\ dPages \in Pagers
  /\ dState = DrainStart

DrainNext ==
  /\ dState.status = "loop"
  /\ dState' = DrainIter(dFn, dPages, dState)
  /\ UNCHANGED <<dFn, dPages>>
  /\ UNCHANGED <<applyVars, fetchVars>>

\* ------------------------------------------------------ shared by the mains
None == "None"    \* Python's None where a string is expected

\* REGIONAL_ENDPOINTS / POWER_CLOUD_REGIONAL_ENDPOINTS: region -> host
PowerEndpoints ==
  [r \in {"au-syd", "br-sao", "ca-mon", "ca-tor", "eu-de", "eu-es", "eu-gb",
          "jp-osa", "jp-tok", "us-east", "us-south", "in-che"} |->
     CASE r = "au-syd" -> "syd.power-iaas"
       [] r = "br-sao" -> "sao.power-iaas"
       [] r = "ca-mon" -> "mon.power-iaas"
       [] r = "ca-tor" -> "tor.power-iaas"
       [] r = "eu-de" -> "eu-de.power-iaas"
       [] r = "eu-es" -> "mad.power-iaas"
       [] r = "eu-gb" -> "lon.power-iaas"
       [] r = "jp-osa" -> "osa.power-iaas"
       [] r = "jp-tok" -> "tok.power-iaas"
       [] r = "us-east" -> "us-east.power-iaas"
       [] r = "us-south" -> "us-south.power-iaas"
       [] r = "in-che" -> "che.power-iaas"]

\* CODE_ENGINE_REGIONAL_ENDPOINTS: region -> host
CodeEngineEndpoints ==
  [r \in {"au-syd", "br-sao", "ca-tor", "eu-de", "eu-es", "eu-gb", "jp-osa",
          "jp-tok", "us-east", "us-south"} |->
     CASE r = "au-syd" -> "api.us-south.codeengine"
       [] r = "br-sao" -> "api.br-sao.codeengine"
       [] r = "ca-tor" -> "api.ca-tor.codeengine"
       [] r = "eu-de" -> "api.eu-de.codeengine"
       [] r = "eu-es" -> "api.eu-es.codeengine"
       [] r = "eu-gb" -> "api.eu-gb.codeengine"
       [] r = "jp-osa" -> "api.jp-osa.codeengine"
       [] r = "jp-tok" -> "api.jp-tok.codeengine"
       [] r = "us-east" -> "api.us-east.codeengine"
       [] r = "us-south" -> "api.us-south.codeengine"]

\* get_service_url_for_region(region, service): dict.get(region, None).
\* (The hardened function also answers None for an empty region, which is in
\* no table anyway; its ValueError for an unknown service is never reached,
\* the callers pass the two literals.)
get_service_url_for_region(region, service) ==
  IF service = "code_engine"
  THEN IF region \in DOMAIN CodeEngineEndpoints THEN CodeEngineEndpoints[region] ELSE None
  ELSE IF region \in DOMAIN PowerEndpoints THEN PowerEndpoints[region] ELSE None

\* The CRNs of the model and the first UUID-shaped substring of each
\* (re.search of the 8-4-4-4-12 pattern); "" is the unset variable.
CrnWithUuid == "crn:v1:bluemix:public:power-iaas:us-south:a/acct:7c2f1a9e-0b1d-4c3e-9f00-aabbccddeeff::"
CrnNoUuid == "crn:v1:bluemix:public:power-iaas:us-south:a/acct:none::"
Crns == {"", CrnNoUuid, CrnWithUuid}

\* get_service_instance_from_crn(crn): raises ValueError on an empty CRN,
\* else the match or None.
get_service_instance_from_crn(crn) ==
  IF crn = "" THEN [raised |-> TRUE, value |-> None]
  ELSE IF crn = CrnWithUuid
  THEN [raised |-> FALSE, value |-> "7c2f1a9e-0b1d-4c3e-9f00-aabbccddeeff"]
  ELSE [raised |-> FALSE, value |-> None]

JsonHeaders == [ContentType |-> "application/json"]

\* get_json_error(status, title, message)
get_json_error(status, title, message) ==
  [headers |-> JsonHeaders, statusCode |-> status,
   body |-> [error |-> title, message |-> message]]

\* return_json_body(body, code) of pvs-scale-fn; the two fetch functions fix
\* the code to 200.
return_json_body(body, code) ==
  [headers |-> JsonHeaders, statusCode |-> code, body |-> [return |-> body]]

\* main has not returned
NoResult == [statusCode |-> 0, body |-> [pending |-> TRUE]]
\* main ended by raising: nothing was returned
Raised(exc) == [statusCode |-> 0, body |-> [raised |-> exc]]

IsSuccess(r) == Has(r.body, "return")
IsError(r) == Has(r.body, "error")
IsRaised(r) == Has(r.body, "raised")

\* ------------------------------------------------- pvs-scale-fn: main
\* The elements a desired-state list may hold. A JSON object is a record with
\* the keys it has; [scalar |-> ..] stands for an element that is no object.
RecFull1 == [instance_id |-> "i1", cpu |-> 2, ram |-> 8]
RecFull2 == [instance_id |-> "i2", cpu |-> 4, ram |-> 16]
RecNoRam == [instance_id |-> "i3", cpu |-> 2]
RecNoId == [cpu |-> 2, ram |-> 8]
RecZeroCpu == [instance_id |-> "i4", cpu |-> 0, ram |-> 8]
NotARecord == [scalar |-> "x"]
ConfigElems == {RecFull1, RecFull2, RecNoRam, RecNoId, RecZeroCpu, NotARecord}

\* pvs_scale_config by what json.loads makes of it
ConfigEnvs ==
  {[kind |-> k, items |-> <<>>] : k \in {"unset", "notjson", "notlist"}}
    \cup {[kind |-> "list", items |-> s] : s \in SeqsUpTo(ConfigElems, MaxRecords)}

ApplyEnvs ==
  [api_key : BOOLEAN, crn : Crns, region : {"", "us-south", "mars"},
   config_env : ConfigEnvs, token : {"ok", "empty", "raise"}]

\* What requests.put may bring: a response, or a RequestException.
PutStatuses == {200, 204, 205, 404}
PutBodies == {"json_msg", "json_nomsg", "scalar_json", "not_json"}
PutResponses ==
  [kind : {"http"}, status : PutStatuses, body : PutBodies]
    \cup {[kind |-> "neterr", status |-> 0, body |-> "timed out"]}

IsObject(inst) == ~Has(inst, "scalar")

\* instance.get(k) is truthy: the key is there and is neither "" nor 0
Truthy(inst, k) ==
  /\ Has(inst, k)
  /\ IF k = "instance_id" THEN inst[k] # "" ELSE inst[k] # 0

\* all([pvm_instance_id, cpu, ram])
Complete(inst) == Truthy(inst, "instance_id") /\ Truthy(inst, "cpu") /\ Truthy(inst, "ram")

\* lines 125-163: the checks before the loop. "ok", or the envelope returned.
ApplyValidation(e) ==
  IF ~e.api_key \/ e.crn = "" \/ e.region = "" \/ e.config_env.kind = "unset"
  THEN get_json_error(400, "MissingConfiguration", "Missing env vars")
  ELSE IF e.config_env.kind = "notjson"
  THEN get_json_error(400, "InvalidConfiguration", "not JSON")
  ELSE IF e.config_env.kind = "notlist"
  THEN get_json_error(400, "InvalidConfiguration", "Configuration must be a list of instances.")
  ELSE IF e.token = "raise"
  THEN get_json_error(500, "InternalError", "token request failed")
  ELSE IF e.token = "empty"
  THEN get_json_error(401, "AuthenticationError", "Failed to obtain IAM token")
  ELSE IF get_service_url_for_region(e.region, "power_iaas") = None
  THEN get_json_error(400, "InvalidRegion", "Unknown region")
  ELSE IF get_service_instance_from_crn(e.crn).value = None
  THEN get_json_error(400, "InvalidCRN", "Cannot extract instance ID from CRN")
  ELSE NoResult

\* lines 173-177: the outcome of a record that lacks a field
MissingOutcome(inst) ==
  [instance_id |-> IF Truthy(inst, "instance_id") THEN inst.instance_id ELSE "unknown",
   message |-> "Missing instance_id, cpu, or ram", code |-> 400]

\* {pvm_instance_id: {"message": .., "code": ..}}
KeyedOutcome(id, message, code) == [k \in {id} |-> [message |-> message, code |-> code]]

\* lines 186-202: what one update response does. Either an outcome is appended
\* (abort = FALSE) or main returns `envelope` at once (abort = TRUE).
\* In the 200..204 branch response.json() raises JSONDecodeError on a body
\* that is no JSON; its handler reads e.status_code, which the exception does
\* not have, and the AttributeError reaches main's `except Exception`. A JSON
\* body that is no object has no .get: AttributeError as well.
ClassifyResponse(id, resp) ==
  IF resp.kind = "neterr"
  THEN [abort |-> FALSE, entry |-> KeyedOutcome(id, resp.body, 500), envelope |-> NoResult]
  ELSE IF 200 <= resp.status /\ resp.status <= 204
  THEN IF resp.body = "not_json"
       THEN [abort |-> TRUE, entry |-> KeyedOutcome(id, "", 0),
             envelope |-> get_json_error(500, "InternalError",
                            "'JSONDecodeError' object has no attribute 'status_code'")]
       ELSE IF resp.body = "scalar_json"
       THEN [abort |-> TRUE, entry |-> KeyedOutcome(id, "", 0),
             envelope |-> get_json_error(500, "InternalError",
                            "'list' object has no attribute 'get'")]
       ELSE [abort |-> FALSE,
             entry |-> KeyedOutcome(id,
                         IF resp.body = "json_msg" THEN "message of the body"
                                                   ELSE "Scaled successfully",
                         resp.status),
             envelope |-> NoResult]
  ELSE [abort |-> FALSE, entry |-> KeyedOutcome(id, resp.body, resp.status),
        envelope |-> NoResult]

\* output.append(..), with the new outcome put in front
AppendOutcomeFront(out, entry) == <<entry>> \o out

\* output.append(..)
AppendOutcome(out, entry) == Append(out, entry)

ApplyIdle ==
  /\ aEnv = [api_key |-> FALSE, crn |-> "", region |-> "",
             config_env |-> [kind |-> "unset", items |-> <<>>], token |-> "ok"]
  /\ aPc = "idle" /\ aIdx = 0 /\ output = <<>> /\ putLog = <<>> /\ aResult = NoResult

InitApplyOnly ==
  /\ aEnv \in ApplyEnvs
  /\ aPc = "start" /\ aIdx = 0 /\ output = <<>> /\ putLog = <<>> /\ aResult = NoResult

config == aEnv.config_env.items

\* main, lines 124-166: read the environment, validate, start the loop
ApplyStart ==
  /\ aPc = "start"
  /\ IF ApplyValidation(aEnv) = NoResult
     THEN aPc' = "loop" /\ aIdx' = 1 /\ aResult' = aResult
     ELSE aPc' = "done" /\ aIdx' = aIdx /\ aResult' = ApplyValidation(aEnv)
  /\ UNCHANGED <<aEnv, output, putLog>>
  /\ UNCHANGED <<drainVars, fetchVars>>

\* main, lines 167-202: one iteration of `for instance in config`
ApplyRecord ==
  /\ aPc = "loop" /\ aIdx <= Len(config)
  /\ LET inst == config[aIdx] IN
       IF ~IsObject(inst)
       THEN \* instance.get on a non-object: AttributeError, caught at line 206
            /\ aPc' = "done"
            /\ aResult' = get_json_error(500, "InternalError", "object has no attribute 'get'")
            /\ UNCHANGED <<aIdx, output, putLog>>
       ELSE IF ~Complete(inst)
       THEN /\ output' = AppendOutcome(output, MissingOutcome(inst))
            /\ aIdx' = aIdx + 1
            /\ UNCHANGED <<aPc, putLog, aResult>>
       ELSE \E resp \in PutResponses :
              LET c == ClassifyResponse(inst.instance_id, resp) IN
                /\ putLog' = Append(putLog, [idx |-> aIdx, id |-> inst.instance_id,
                                             processors |-> inst.cpu, memory |-> inst.ram,
                                             resp |-> resp])
                /\ IF c.abort
                   THEN aPc' = "done" /\ aResult' = c.envelope
                        /\ UNCHANGED <<aIdx, output>>
                   ELSE output' = AppendOutcome(output, c.entry) /\ aIdx' = aIdx + 1
                        /\ UNCHANGED <<aPc, aResult>>
  /\ UNCHANGED aEnv
  /\ UNCHANGED <<drainVars, fetchVars>>

\* main, line 204: return return_json_body(output, 200)
ApplyReturn ==
  /\ aPc = "loop" /\ aIdx > Len(config)
  /\ aPc' = "done"
  /\ aResult' = return_json_body(output, 200)
  /\ UNCHANGED <<aEnv, aIdx, output, putLog>>
  /\ UNCHANGED <<drainVars, fetchVars>>

NextApply == ApplyStart \/ ApplyRecord \/ ApplyReturn

\* ------------------------- pvs-scale-current-fn / pvs-scale-current-state-fn
Procs == {"a", "b"}     \* two invocations of the deployed function

ConfigMapName == "pvs-scale-up-config"
ProjectName == "target-project"
TargetProject == [id |-> "proj-1", name |-> ProjectName]
OtherProject == [id |-> "proj-0", name |-> "other-project"]
OtherConfigMap == [name |-> "other-config"]
TargetConfigMap == [name |-> ConfigMapName]

FetchEnvs ==
  [api_key : BOOLEAN, region : {"", "us-south", "ca-mon", "mars"},
   crn : Crns, project_name : BOOLEAN]

\* The entries a listing response may hold
EntAbc == [pvmInstanceID |-> "abc", serverName |-> "n1", processors |-> 2, memory |-> 8]
EntDef == [pvmInstanceID |-> "def", serverName |-> "n2", processors |-> 4, memory |-> 16]
EntNoId == [serverName |-> "n3", processors |-> 1, memory |-> 4]
EntEmptyId == [pvmInstanceID |-> "", serverName |-> "n4", processors |-> 1, memory |-> 4]
Entries == {EntAbc, EntDef, EntNoId, EntEmptyId}

\* What the listing step may meet: the token request fails, requests.get
\* raises, or a response arrives: a status and a body that is no JSON, a JSON
\* object without "pvmInstances", or one with it.
ListStatuses == {200, 201, 302, 404}
ListBodies(n) ==
  {[kind |-> k, entries |-> <<>>] : k \in {"not_json", "nokey"}}
    \cup {[kind |-> "instances", entries |-> s] : s \in SeqsUpTo(Entries, n)}
ListOutcomes(n) ==
  [kind : {"http"}, status : ListStatuses, body : ListBodies(n)]
    \cup {[kind |-> k, status |-> 0, body |-> [kind |-> "not_json", entries |-> <<>>]] :
            k \in {"tokenerr", "neterr"}}
NoListing == [kind |-> "unsent", status |-> 0, body |-> [kind |-> "not_json", entries |-> <<>>]]

\* The scripts a pager over `items` may follow: one item a page, and at most
\* one fault (an absent page, an empty page, a raising get_next) somewhere.
RECURSIVE OnePerPage(_)
OnePerPage(items) ==
  IF items = <<>> THEN <<>> ELSE <<PageEv(<<Head(items)>>)>> \o OnePerPage(Tail(items))

InsertAt(s, k, x) == SubSeq(s, 1, k - 1) \o <<x>> \o SubSeq(s, k, Len(s))

PagerScripts(items) ==
  {OnePerPage(items)}
    \cup {InsertAt(OnePerPage(items), k, ev) :
            k \in 1..(Len(items) + 1), ev \in {NoneEv, PageEv(<<>>), RaiseEv}}

\* main's two handlers
MainOnApiException(f, code, message) ==
  IF f = "state"
  THEN get_json_error(IF code = 0 THEN 500 ELSE code, "ApiException", message)
  ELSE get_json_error(code, "error", message)

MainOnException(f, message) ==
  IF f = "state" THEN get_json_error(500, "InternalError", message)
  ELSE get_json_error(500, "error", message)

\* return_json_body(current_status) of the two fetch functions
return_json_body_200(body) == return_json_body(body, 200)

\* a drainer that raised, seen from main
MainOnDrainRaise(f, exc) ==
  IF exc = "ApiException" THEN MainOnApiException(f, 503, "pager failed")
  ELSE MainOnException(f, "")

\* the projection of one listing entry
Project(e) ==
  [instance_id |-> e.pvmInstanceID, instance_name |-> e.serverName,
   cpu |-> e.processors, ram |-> e.memory]

\* inst.get("pvmInstanceID") is truthy
HasId(e) == Has(e, "pvmInstanceID") /\ e.pvmInstanceID # ""

RECURSIVE ProjectKept(_)
ProjectKept(es) ==
  IF es = <<>> THEN <<>>
  ELSE IF HasId(Head(es)) THEN <<Project(Head(es))>> \o ProjectKept(Tail(es))
  ELSE ProjectKept(Tail(es))

RECURSIVE ProjectAll(_)
ProjectAll(es) ==
  IF es = <<>> THEN <<>> ELSE <<Project(Head(es))>> \o ProjectAll(Tail(es))

\* pvs-scale-current-state-fn, lines 220-278: the listing request and the
\* projection. ok with the data, or the envelope main returns.
FetchListingState(o) ==
  IF o.kind = "tokenerr"
  THEN [ok |-> FALSE, data |-> <<>>,
        envelope |-> MainOnApiException("state", 401, "token request failed")]
  ELSE IF o.kind = "neterr"
  THEN [ok |-> FALSE, data |-> <<>>,
        envelope |-> MainOnApiException("state", 500, "HTTP error")]
  ELSE IF o.status >= 400
  THEN [ok |-> FALSE, data |-> <<>>,
        envelope |-> MainOnApiException("state", o.status, "HTTP error")]
  ELSE IF o.body.kind = "not_json"
  THEN [ok |-> FALSE, data |-> <<>>,
        envelope |-> MainOnApiException("state", o.status, "Invalid JSON in response")]
  ELSE IF o.body.kind = "nokey"
  THEN [ok |-> FALSE, data |-> <<>>,
        envelope |-> MainOnException("state", "Response missing 'pvmInstances' field")]
  ELSE [ok |-> TRUE, data |-> ProjectKept(o.body.entries), envelope |-> NoResult]

\* pvs-scale-current-fn, lines 185-228: only status 200 is decoded; any other
\* status leaves `result` unbound (UnboundLocalError); instance["pvmInstanceID"]
\* raises KeyError on an entry without the key.
FetchListingCurrent(o) ==
  IF o.kind = "tokenerr"
  THEN [ok |-> FALSE, data |-> <<>>,
        envelope |-> MainOnApiException("current", 401, "token request failed")]
  ELSE IF o.kind = "neterr"
  THEN [ok |-> FALSE, data |-> <<>>,
        envelope |-> MainOnException("current", "connection failed")]
  ELSE IF o.status # 200
  THEN [ok |-> FALSE, data |-> <<>>,
        envelope |-> MainOnException("current", "local variable 'result' referenced before assignment")]
  ELSE IF o.body.kind = "not_json"
  THEN [ok |-> FALSE, data |-> <<>>,
        envelope |-> MainOnApiException("current", o.status, "Error processing the HTTP response")]
  ELSE IF o.body.kind = "nokey"
  THEN [ok |-> FALSE, data |-> <<>>,
        envelope |-> MainOnException("current", "'pvmInstances'")]
  ELSE IF \E i \in 1..Len(o.body.entries) : ~Has(o.body.entries[i], "pvmInstanceID")
  THEN [ok |-> FALSE, data |-> <<>>,
        envelope |-> MainOnException("current", "'pvmInstanceID'")]
  ELSE [ok |-> TRUE, data |-> ProjectAll(o.body.entries), envelope |-> NoResult]

FetchListing(f, o) == IF f = "state" THEN FetchListingState(o) ELSE FetchListingCurrent(o)
\* ---- the config map in Code Engine
StoreStates ==
  {[exists |-> FALSE, content |-> <<>>, etag |-> 0, writer |-> "nobody"],
   [exists |-> TRUE, content |-> <<>>, etag |-> 1, writer |-> "earlier"]}

\* what list_config_maps has to list
ConfigMapsOf(st) ==
  IF st.exists THEN <<OtherConfigMap, TargetConfigMap>> ELSE <<OtherConfigMap>>

NoRace == [replaced |-> FALSE, stale |-> FALSE, wrote |-> FALSE]
CallRec(op, project, tag) == [op |-> op, project |-> project, etag |-> tag]
ConfigMapOps == {"list_config_maps", "get_config_map", "replace_config_map", "create_config_map"}

FetchIdle ==
  /\ fn = "state"
  /\ env = [api_key |-> FALSE, region |-> "", crn |-> "", project_name |-> FALSE]
  /\ pc = [p \in Procs |-> "idle"]
  /\ projectId = [p \in Procs |-> "unset"]
  /\ listing = [p \in Procs |-> NoListing]
  /\ data = [p \in Procs |-> <<>>]
  /\ found = [p \in Procs |-> "unknown"]
  /\ etag = [p \in Procs |-> 0]
  /\ calls = [p \in Procs |-> <<>>]
  /\ race = [p \in Procs |-> NoRace]
  /\ result = [p \in Procs |-> NoResult]
  /\ store = [exists |-> FALSE, content |-> <<>>, etag |-> 0, writer |-> "nobody"]

InitFetch(running) ==
  /\ fn \in Fns
  /\ env \in FetchEnvs
  /\ pc = [p \in Procs |-> IF p \in running THEN "start" ELSE "idle"]
  /\ projectId = [p \in Procs |-> "unset"]
  /\ listing = [p \in Procs |-> NoListing]
  /\ data = [p \in Procs |-> <<>>]
  /\ found = [p \in Procs |-> "unknown"]
  /\ etag = [p \in Procs |-> 0]
  /\ calls = [p \in Procs |-> <<>>]
  /\ race = [p \in Procs |-> NoRace]
  /\ result = [p \in Procs |-> NoResult]
  /\ store \in StoreStates

\* main ends: it returns envelope r (or raises, r = Raised(..))
Finish(p, r) == pc' = [pc EXCEPT ![p] = "done"] /\ result' = [result EXCEPT ![p] = r]

\* main up to the first Code Engine call.
\* pvs-scale-current-state-fn, lines 309-323 and 248-256: everything is inside
\* the try.
\* pvs-scale-current-fn, lines 250-253: IAMAuthenticator(None) and
\* os.environ[..] = None raise before the try is entered.
FetchStartResult(f, e) ==
  IF f = "state"
  THEN IF ~e.api_key THEN MainOnException(f, "Missing IBM_CLOUD_API_KEY environment variable")
       ELSE IF e.region = "" THEN MainOnException(f, "Missing CODE_ENGINE_REGION environment variable")
       ELSE IF get_service_url_for_region(e.region, "code_engine") = None
       THEN MainOnException(f, "str expected, not NoneType")
       ELSE IF ~e.project_name \/ e.crn = ""
       THEN MainOnException(f, "Environment variables CODE_ENGINE_PROJECT_NAME and CRN must be set")
       ELSE NoResult
  ELSE IF ~e.api_key THEN Raised("ValueError")
       ELSE IF get_service_url_for_region(e.region, "code_engine") = None
       THEN Raised("TypeError")
       ELSE NoResult

FetchStart(p) ==
  /\ pc[p] = "start"
  /\ IF FetchStartResult(fn, env) = NoResult
     THEN pc' = [pc EXCEPT ![p] = "list_projects"] /\ result' = result
     ELSE Finish(p, FetchStartResult(fn, env))
  /\ UNCHANGED <<fn, env, projectId, listing, data, found, etag, calls, race, store>>
  /\ UNCHANGED <<drainVars, applyVars>>
\* next((p["id"] for p in all_projects if p.get("name") == name), None)
RECURSIVE FindProject(_, _)
FindProject(projects, name) ==
  IF projects = <<>> THEN None
  ELSE IF Has(Head(projects), "name") /\ Head(projects).name = name THEN Head(projects).id
  ELSE FindProject(Tail(projects), name)

\* any(config_map.get("name") == "pvs-scale-up-config" for config_map in ..)
HasConfigMap(maps) ==
  \E i \in 1..Len(maps) : Has(maps[i], "name") /\ maps[i].name = ConfigMapName

\* os.getenv("CODE_ENGINE_PROJECT_NAME")
WantedProject(e) == IF e.project_name THEN ProjectName ELSE None

\* the CRN yields no cloud_instance_id: "" raises in
\* get_service_instance_from_crn, a CRN without UUID gives None
CrnUnusable(crn) ==
  get_service_instance_from_crn(crn).raised \/ get_service_instance_from_crn(crn).value = None

Logged(p, op, tag) == calls' = [calls EXCEPT ![p] = Append(@, CallRec(op, projectId[p], tag))]

\* get_current_status: ProjectsPager drained, the project looked up.
\* pvs-scale-current-state-fn (lines 257-261) raises ValueError when it is not
\* there, and get_instances_details (lines 188-204) checks the CRN before any
\* request;
\* pvs-scale-current-fn (lines 213-216) goes on with project_id = None.
ListProjects(p) ==
  /\ pc[p] = "list_projects"
  /\ Logged(p, "list_projects", 0)
  /\ \E hasTarget \in BOOLEAN :
       \E script \in PagerScripts(IF hasTarget THEN <<OtherProject, TargetProject>>
                                               ELSE <<OtherProject>>) :
         LET d == get_paged_results(fn, script)
             pid == FindProject(d.results, WantedProject(env))
         IN IF d.status = "raised"
            THEN Finish(p, MainOnDrainRaise(fn, d.exc)) /\ projectId' = projectId
            ELSE /\ projectId' = [projectId EXCEPT ![p] = pid]
                 /\ IF fn = "state" /\ pid = None
                    THEN Finish(p, MainOnException(fn, "Project not found in Code Engine"))
                    ELSE IF fn = "state" /\ CrnUnusable(env.crn)
                    THEN Finish(p, MainOnException(fn, "Unable to extract cloud_instance_id from CRN"))
                    ELSE pc' = [pc EXCEPT ![p] = "list_instances"] /\ result' = result
  /\ UNCHANGED <<fn, env, listing, data, found, etag, race, store>>
  /\ UNCHANGED <<drainVars, applyVars>>

\* The longest listing tried: MaxEntries when one invocation runs alone,
\* MaxEntriesRace when two run against each other.
EntryBound == IF \E q \in Procs : pc[q] = "idle" THEN MaxEntries ELSE MaxEntriesRace

\* get_instances_details and the projection. pvs-scale-current-fn asks for the
\* token first and meets an unusable CRN after it, before the request.
ListInstances(p) ==
  /\ pc[p] = "list_instances"
  /\ \E o \in ListOutcomes(EntryBound) :
       LET sent == o.kind # "tokenerr" /\ ~CrnUnusable(env.crn)
           r == IF o.kind # "tokenerr" /\ CrnUnusable(env.crn)
                THEN [ok |-> FALSE, data |-> <<>>,
                      envelope |-> MainOnException(fn, "The crn is required")]
                ELSE FetchListing(fn, o)
       IN /\ listing' = [listing EXCEPT ![p] = IF sent THEN o ELSE NoListing]
          /\ IF r.ok
             THEN /\ data' = [data EXCEPT ![p] = r.data]
                  /\ pc' = [pc EXCEPT ![p] = "list_config_maps"]
                  /\ result' = result
             ELSE Finish(p, r.envelope) /\ data' = data
  /\ UNCHANGED <<fn, env, projectId, found, etag, calls, race, store>>
  /\ UNCHANGED <<drainVars, applyVars>>

\* ConfigMapsPager drained, the config map looked up by name. With
\* project_id = None (pvs-scale-current-fn only) the SDK's list_config_maps
\* refuses the call with ValueError.
ListConfigMaps(p) ==
  /\ pc[p] = "list_config_maps"
  /\ Logged(p, "list_config_maps", 0)
  /\ IF projectId[p] = None
     THEN Finish(p, MainOnException(fn, "project_id must be provided")) /\ found' = found
     ELSE \E script \in PagerScripts(ConfigMapsOf(store)) :
            LET d == get_paged_results(fn, script) IN
              IF d.status = "raised"
              THEN Finish(p, MainOnDrainRaise(fn, d.exc)) /\ found' = found
              ELSE /\ found' = [found EXCEPT ![p] = IF HasConfigMap(d.results) THEN "yes" ELSE "no"]
                   /\ pc' = [pc EXCEPT ![p] = IF HasConfigMap(d.results)
                                              THEN "get_config_map" ELSE "create_config_map"]
                   /\ result' = result
  /\ UNCHANGED <<fn, env, projectId, listing, data, etag, race, store>>
  /\ UNCHANGED <<drainVars, applyVars>>

\* The document store: a conditional replace is accepted when the config map
\* exists and if_match is its current entity tag; a create when the name is free.
StoreAcceptsReplace(st, tag) == st.exists /\ tag = st.etag
StoreAcceptsCreate(st) == ~st.exists
StoreWrite(st, content, who) ==
  [exists |-> TRUE, content |-> content, etag |-> st.etag + 1, writer |-> who]

\* config_map = code_engine_service.get_config_map(..); etag = ..get("entity_tag")
GetConfigMap(p) ==
  /\ pc[p] = "get_config_map"
  /\ \E net \in {"ok", "fail"} :
       IF net = "fail" \/ ~store.exists
       THEN /\ Logged(p, "get_config_map", 0)
            /\ Finish(p, MainOnApiException(fn, IF net = "fail" THEN 503 ELSE 404,
                                            "get_config_map failed"))
            /\ etag' = etag
       ELSE /\ Logged(p, "get_config_map", store.etag)
            /\ etag' = [etag EXCEPT ![p] = store.etag]
            /\ pc' = [pc EXCEPT ![p] = "replace_config_map"]
            /\ result' = result
  /\ UNCHANGED <<fn, env, projectId, listing, data, found, race, store>>
  /\ UNCHANGED <<drainVars, applyVars>>

\* if_match=etag, forgotten
IfMatchUnset(p) == 0

\* if_match=etag, with the tag read anew at the moment of the write
IfMatchFresh(p) == store.etag

\* if_match=etag
IfMatchArg(p) == etag[p]

\* code_engine_service.replace_config_map(.., if_match=etag, data=..), then
\* `return data` and main's return_json_body; an ApiException goes to main's
\* handler. There is no retry.
ReplaceConfigMap(p) ==
  /\ pc[p] = "replace_config_map"
  /\ Logged(p, "replace_config_map", IfMatchArg(p))
  /\ \E net \in {"ok", "fail"} :
       IF net = "ok" /\ StoreAcceptsReplace(store, IfMatchArg(p))
       THEN /\ store' = StoreWrite(store, data[p], p)
            /\ race' = [race EXCEPT ![p] = [replaced |-> TRUE, stale |-> etag[p] # store.etag,
                                            wrote |-> TRUE]]
            /\ Finish(p, return_json_body_200(data[p]))
       ELSE /\ store' = store
            /\ race' = [race EXCEPT ![p] = [replaced |-> TRUE, stale |-> etag[p] # store.etag,
                                            wrote |-> FALSE]]
            /\ Finish(p, MainOnApiException(fn, IF net = "fail" THEN 503 ELSE 412,
                                            "replace_config_map failed"))
  /\ UNCHANGED <<fn, env, projectId, listing, data, found, etag>>
  /\ UNCHANGED <<drainVars, applyVars>>

\* code_engine_service.create_config_map(.., data=..), then `return data`
CreateConfigMap(p) ==
  /\ pc[p] = "create_config_map"
  /\ Logged(p, "create_config_map", 0)
  /\ \E net \in {"ok", "fail"} :
       IF net = "ok" /\ StoreAcceptsCreate(store)
       THEN /\ store' = StoreWrite(store, data[p], p)
            /\ Finish(p, return_json_body_200(data[p]))
       ELSE /\ store' = store
            /\ Finish(p, MainOnApiException(fn, IF net = "fail" THEN 503 ELSE 409,
                                            "create_config_map failed"))
  /\ UNCHANGED <<fn, env, projectId, listing, data, found, etag, race>>
  /\ UNCHANGED <<drainVars, applyVars>>

NextFetch ==
  \E p \in Procs :
    \/ FetchStart(p)
    \/ ListProjects(p)
    \/ ListInstances(p)
    \/ ListConfigMaps(p)
    \/ GetConfigMap(p)
    \/ ReplaceConfigMap(p)
    \/ CreateConfigMap(p)

\* ------------------------------------------------------- the specifications
\* one fetch-and-publish invocation
Init == DrainIdle /\ ApplyIdle /\ InitFetch({"a"})
Next == NextFetch
Spec == Init /\ [][Next]_vars

\* two fetch-and-publish invocations, interleaved call by call
InitRace == DrainIdle /\ ApplyIdle /\ InitFetch(Procs)
SpecRace == InitRace /\ [][NextFetch]_vars

\* one apply invocation
InitApply == DrainIdle /\ InitApplyOnly /\ FetchIdle
SpecApply == InitApply /\ [][NextApply]_vars

\* get_paged_results alone
InitDrain == InitDrainOnly /\ ApplyIdle /\ FetchIdle
SpecDrain == InitDrain /\ [][DrainNext]_vars

\* one invocation of one of the three entry points: pvs-scale-fn, or one of
\* the two fetch-and-publish functions
InitMain ==
  /\ DrainIdle
  /\ \/ InitApplyOnly /\ FetchIdle
     \/ ApplyIdle /\ InitFetch({"a"})
NextMain == NextApply \/ NextFetch
SpecMain == InitMain /\ [][NextMain]_vars
\* ---------------------------------------------------------------- claims
\* every element of the desired-state list is a JSON object
AllObjects == \A i \in 1..Len(config) : IsObject(config[i])

\* C1 (as claimed): once the environment, the region and the CRN have passed
\* validation, main ends, whatever the update responses were, with the
\* success envelope, statusCode 200, holding one outcome per input record.
C1_EveryRecordReported ==
  (aPc = "done" /\ ApplyValidation(aEnv) = NoResult /\ AllObjects) =>
     /\ IsSuccess(aResult)
     /\ aResult.statusCode = 200
     /\ Len(aResult.body.return) = Len(config)

\* C2 (as claimed): an update answered with a status in 200..204 and a body
\* that is no JSON, or a JSON object without "message", leaves the outcome
\* {id: {message: "Scaled successfully", code: status}} at the record's place,
\* and the loop goes on to the next record.
C2_UndecodableBodyIsSuccess ==
  \A k \in 1..Len(putLog) :
    LET r == putLog[k].resp IN
      (r.kind = "http" /\ 200 <= r.status /\ r.status <= 204
         /\ r.body \in {"not_json", "json_nomsg"}) =>
        /\ Len(output) >= putLog[k].idx
        /\ output[putLog[k].idx] = KeyedOutcome(putLog[k].id, "Scaled successfully", r.status)
        /\ aIdx > putLog[k].idx

\* C7 (as claimed): when main has ended, the update requests issued are as
\* many as the records carrying instance_id, cpu and ram, one for each of
\* them, and every other record has an outcome with code 400 and no request.
C7_OneRequestPerCompleteRecord ==
  (aPc = "done" /\ ApplyValidation(aEnv) = NoResult /\ AllObjects) =>
     /\ Len(putLog) = Cardinality({i \in 1..Len(config) : Complete(config[i])})
     /\ \A i \in 1..Len(config) :
          IF Complete(config[i])
          THEN Cardinality({k \in 1..Len(putLog) : putLog[k].idx = i}) = 1
          ELSE /\ \A k \in 1..Len(putLog) : putLog[k].idx # i
               /\ Len(output) >= i
               /\ Has(output[i], "code") /\ output[i].code = 400

\* the get, replace and create calls of an invocation, in order
PublishCalls(p) ==
  SelectSeq(calls[p], LAMBDA c : c.op \in {"get_config_map", "replace_config_map",
                                            "create_config_map"})

\* C3: when the config map is in the drained listing, the invocation calls
\* get_config_map and then replace_config_map with if_match the entity tag
\* that get returned, and never create_config_map; when it is not, it calls
\* create_config_map once and neither get nor replace.
C3_PublishCalls ==
  \A p \in Procs :
    LET pub == PublishCalls(p) IN
      /\ found[p] = "unknown" => pub = <<>>
      /\ found[p] = "yes" =>
           /\ Len(pub) <= 2
           /\ Len(pub) >= 1 => pub[1].op = "get_config_map"
           /\ Len(pub) = 2 => pub[2].op = "replace_config_map" /\ pub[2].etag = pub[1].etag
           /\ (pc[p] = "done" /\ Len(pub) >= 1 /\ pub[1].etag # 0) => Len(pub) = 2
           /\ IsSuccess(result[p]) => Len(pub) = 2
      /\ found[p] = "no" =>
           /\ Len(pub) <= 1
           /\ Len(pub) = 1 => pub[1].op = "create_config_map"
           /\ pc[p] = "done" => Len(pub) = 1

\* C3's case: one invocation created the config map, the other found it
\* listed and replaced it; both succeeded.
C3_Witness ==
  \E p, q \in Procs :
    /\ found[p] = "yes" /\ IsSuccess(result[p]) /\ Len(PublishCalls(p)) = 2
    /\ found[q] = "no" /\ IsSuccess(result[q]) /\ Len(PublishCalls(q)) = 1

CountOp(p, op) == Cardinality({i \in 1..Len(calls[p]) : calls[p][i].op = op})

\* C4: an invocation whose replace comes after another write to the config
\* map since its own get does not overwrite that write, ends with an error
\* envelope, and has issued one get and one replace, no more.
C4_StaleReplaceIsSurfaced ==
  \A p \in Procs :
    (race[p].replaced /\ race[p].stale) =>
      /\ ~race[p].wrote
      /\ store.writer # p
      /\ pc[p] = "done" /\ IsError(result[p])
      /\ CountOp(p, "get_config_map") = 1
      /\ CountOp(p, "replace_config_map") = 1

\* C4's case: p read the tag, q wrote, p's replace was refused.
C4_Witness ==
  \E p, q \in Procs :
    /\ p # q
    /\ race[p].replaced /\ race[p].stale
    /\ store.writer = q
    /\ IsSuccess(result[q]) /\ IsError(result[p]) /\ result[p].statusCode = 412

\* the first page of the script that is empty or absent, 0 when there is none
\* or a raising get_next comes before it
FirstDegenerate(pages) ==
  LET ks == {k \in 1..Len(pages) :
               /\ pages[k].kind = "none" \/ (pages[k].kind = "page" /\ pages[k].items = <<>>)
               /\ \A j \in 1..(k - 1) : pages[j].kind = "page" /\ pages[j].items # <<>>}
  IN IF ks = {} THEN 0 ELSE CHOOSE k \in ks : TRUE

ItemsOf(pages) == [i \in 1..Len(pages) |-> pages[i].items]

\* C5 (as claimed): in both functions, a pager that reports a next page and
\* then gives an empty or absent one makes the drainer return, without
\* raising, the items of the pages before it.
C5_EmptyPageEndsDrain ==
  (dState.status \notin {"loop", "idle"} /\ FirstDegenerate(dPages) > 0) =>
     /\ dState.status = "returned"
     /\ dState.results = Flatten(SubSeq(ItemsOf(dPages), 1, FirstDegenerate(dPages) - 1))

\* N pages of K items each, K > 0, and nothing else
UniformPages(pages) ==
  /\ \A i \in 1..Len(pages) : pages[i].kind = "page" /\ pages[i].items # <<>>
  /\ \A i, j \in 1..Len(pages) : Len(pages[i].items) = Len(pages[j].items)

\* C6: over N non-empty pages of K items each, the drainer returns the N*K
\* items, pages in order and items in order inside each page, after exactly
\* N calls of get_next.
C6_DrainConcatenates ==
  (dState.status \notin {"loop", "idle"} /\ UniformPages(dPages)) =>
     /\ dState.status = "returned"
     /\ dState.results = Flatten(ItemsOf(dPages))
     /\ Len(dPages) > 0 => Len(dState.results) = Len(dPages) * Len(dPages[1].items)
     /\ dState.calls = Len(dPages)

\* C6's case: several pages of several items, drained to the end.
C6_Witness ==
  /\ dState.status = "returned"
  /\ UniformPages(dPages)
  /\ Len(dPages) = MaxPages
  /\ dPages[1].items = <<"a", "b">> /\ dPages[2].items = <<"b", "a">>
  /\ dState.calls = MaxPages

\* C8 (as claimed): a listing entry without identifier is dropped and never
\* fails the invocation: after a decodable listing the records held,
\* published and returned are the projection of the entries with a non-empty
\* identifier, in listing order, and a failure, if any, comes from the store.
C8_EntriesWithoutIdDropped ==
  \A p \in Procs :
    (listing[p].kind = "http" /\ listing[p].status = 200
       /\ listing[p].body.kind = "instances") =>
      /\ data[p] = ProjectKept(listing[p].body.entries)
      /\ IsError(result[p]) => CountOp(p, "list_config_maps") = 1
      /\ IsSuccess(result[p]) =>
           /\ result[p].body.return = ProjectKept(listing[p].body.entries)
           /\ store.content = ProjectKept(listing[p].body.entries)

\* C9 (as claimed): when a project name is configured and the drained
\* project list holds no project of that name, the invocation issues no
\* config map call and ends in the not-found error envelope.
C9_NoProjectNoStoreCall ==
  \A p \in Procs :
    (env.project_name /\ projectId[p] = None) =>
      /\ \A i \in 1..Len(calls[p]) : calls[p][i].op \notin ConfigMapOps
      /\ pc[p] = "done" =>
           IsError(result[p]) /\ result[p].body.message = "Project not found in Code Engine"

\* the messages of the two decoding failures, and those of an HTTP failure
DecodingMessages == {"Invalid JSON in response", "Error processing the HTTP response"}
HttpFailureMessages == {"HTTP error"}

\* C10 (as claimed): a listing response with a status outside 2xx ends the
\* invocation in an error envelope with that status as statusCode; one with a
\* 2xx status and a body that is no JSON ends it in an error envelope with the
\* decoding message, which no HTTP failure carries; the store is not written.
C10_ListingFailureReported ==
  \A p \in Procs :
    LET l == listing[p]
        in2xx == 200 <= l.status /\ l.status <= 299
    IN /\ (l.kind = "http" /\ ~in2xx) =>
            /\ pc[p] = "done" /\ IsError(result[p])
            /\ result[p].statusCode = l.status
            /\ store.writer # p
       /\ (l.kind = "http" /\ in2xx /\ l.body.kind = "not_json") =>
            /\ pc[p] = "done" /\ IsError(result[p])
            /\ result[p].body.message \in DecodingMessages \ HttpFailureMessages
            /\ store.writer # p

\* the region is configured and the table of the service has no entry for it
RegionUnresolved(region, service) ==
  region # "" /\ get_service_url_for_region(region, service) = None

\* C11 (as claimed): in each of the three entry points, a configured region
\* that the endpoint table of the service asked for does not hold ends the
\* invocation in an error envelope, never in an exception leaving main, and
\* no update, listing or Code Engine request has been sent. (In the two fetch
\* functions the lookup is reached when the API key is set.)
C11_UnknownRegionIsReported ==
  /\ (aPc = "done" /\ RegionUnresolved(aEnv.region, "power_iaas")) =>
       IsError(aResult) /\ putLog = <<>>
  /\ \A p \in Procs :
       (pc[p] = "done" /\ env.api_key /\ RegionUnresolved(env.region, "code_engine")) =>
         IsError(result[p]) /\ calls[p] = <<>> /\ listing[p] = NoListing

\* {headers: {Content-Type: application/json}, statusCode: integer,
\*  body: {return: payload} or {error, message}}
IsEnvelope(r) ==
  /\ DOMAIN r = {"headers", "statusCode", "body"}
  /\ r.headers = JsonHeaders
  /\ r.statusCode \in 100..599
  /\ DOMAIN r.body = {"return"} \/ DOMAIN r.body = {"error", "message"}

\* C12 (as claimed): whatever the environment and whatever the external calls
\* answer, main of each of the three entry points ends by returning the
\* uniform envelope; it never ends by raising.
C12_MainReturnsEnvelope ==
  /\ aPc = "done" => IsEnvelope(aResult)
  /\ \A p \in Procs : pc[p] = "done" => IsEnvelope(result[p])

\* the four variables main asks for first are all set
ApplyEnvPresent == aEnv.api_key /\ aEnv.crn # "" /\ aEnv.region # "" /\ aEnv.config_env.kind # "unset"

\* pvs_scale_config is no sequence of records: no JSON, JSON that is no list,
\* or a list with an element that is no object
MalformedPayload ==
  \/ aEnv.config_env.kind \in {"notjson", "notlist"}
  \/ aEnv.config_env.kind = "list" /\ ~AllObjects

\* the token, the region and the CRN are good
ApplyRestValid ==
  /\ aEnv.token = "ok"
  /\ get_service_url_for_region(aEnv.region, "power_iaas") # None
  /\ get_service_instance_from_crn(aEnv.crn).value # None

\* C13 (as claimed): with the rest of the configuration valid, a payload that
\* is no sequence of records ends the invocation in the InvalidConfiguration
\* error envelope, and no update request is issued.
C13_MalformedPayloadRejected ==
  (ApplyEnvPresent /\ ApplyRestValid /\ MalformedPayload) =>
     /\ putLog = <<>>
     /\ aPc = "done" => IsError(aResult) /\ aResult.body.error = "InvalidConfiguration"

\* the update of putLog[k] did not succeed: a status outside 200..204, or no
\* response at all
FailedUpdate(k) ==
  putLog[k].resp.kind = "neterr" \/ putLog[k].resp.status < 200 \/ putLog[k].resp.status > 204

\* C14 (as claimed), over a list of records: a record whose update is answered with a status outside
\* 200..204 has the outcome {id: {message: body text, code: status}}, one
\* whose update fails in the network has {id: {message: exception text,
\* code: 500}}; the loop goes on, and when main has ended every record after
\* it has its own outcome in the payload returned.
C14_FailedUpdateIsAnOutcome ==
  \A k \in 1..Len(putLog) :
    LET r == putLog[k].resp
        i == putLog[k].idx
    IN (AllObjects /\ FailedUpdate(k)) =>
         /\ Len(output) >= i
         /\ output[i] = KeyedOutcome(putLog[k].id, r.body, IF r.kind = "neterr" THEN 500 ELSE r.status)
         /\ aIdx > i
         /\ aPc = "done" =>
              /\ IsSuccess(aResult)
              /\ aResult.body.return = output
              /\ Len(output) = Len(config)

\* C15 (as claimed): every entry of the outcome list is a mapping with the
\* one key instance_id of its record, whose value is {message, code}.
C15_OutcomesKeyedById ==
  \A i \in 1..Len(output) :
    /\ IsObject(config[i])
    /\ DOMAIN output[i] = {IF Truthy(config[i], "instance_id")
                           THEN config[i].instance_id ELSE "unknown"}
    /\ \A id \in DOMAIN output[i] : DOMAIN output[i][id] = {"message", "code"}

\* the outcome that record i leaves: the flat 400 entry when a field is
\* missing, else what the response to its update request makes
IsOutcomeOf(entry, i) ==
  /\ IsObject(config[i])
  /\ IF Complete(config[i])
     THEN \E k \in 1..Len(putLog) :
            /\ putLog[k].idx = i
            /\ entry = ClassifyResponse(config[i].instance_id, putLog[k].resp).entry
     ELSE /\ entry = MissingOutcome(config[i])
          /\ \A k \in 1..Len(putLog) : putLog[k].idx # i

\* C16: at every point of an invocation the outcome list is as long as the
\* prefix of records dealt with, its i-th entry is the outcome of the i-th
\* record, and the update requests have been issued in the order of the
\* records, each for the record at its index.
C16_OutcomesInInputOrder ==
  /\ Len(output) <= Len(config)
  /\ aPc = "loop" => Len(output) = aIdx - 1
  /\ \A i \in 1..Len(output) : IsOutcomeOf(output[i], i)
  /\ \A k \in 1..Len(putLog) :
       /\ putLog[k].idx \in 1..Len(config)
       /\ putLog[k].id = config[putLog[k].idx].instance_id
       /\ k > 1 => putLog[k - 1].idx < putLog[k].idx

\* C16's case: three records, the second without ram, the first update
\* failed and the third succeeded; main has returned the three outcomes.
C16_Witness ==
  /\ aPc = "done" /\ IsSuccess(aResult)
  /\ config = <<RecFull1, RecNoRam, RecFull2>>
  /\ Len(aResult.body.return) = 3
  /\ Len(putLog) = 2 /\ putLog[1].resp.kind = "neterr" /\ putLog[2].resp.status = 200
  /\ aResult.body.return[2] = MissingOutcome(RecNoRam)

\* C17 (as claimed): an invocation that lists the config maps while
\* pvs-scale-up-config exists does not go on to create_config_map, whatever
\* the pager does.
C17_NoCreateOfExisting ==
  [][\A p \in Procs :
       (pc[p] = "list_config_maps" /\ store.exists) => pc'[p] # "create_config_map"]_vars
====
